---- MODULE Spec2Model ----
(***************************************************************************)
(* The account ledger of the transaction processor (src/src/account.rs):   *)
(* one Account with its balances and its two transaction maps, driven by   *)
(* calls of deposit, withdraw, dispute, resolve and chargeback.            *)
(*                                                                         *)
(* Amounts are BigDecimal values in the source (exact, unbounded); they    *)
(* are modelled as integers counting units of the smallest decimal place.  *)
(***************************************************************************)
EXTENDS Integers, FiniteSets, Sequences, TLC

\* Bounds of the model.
MaxOps == 5
MaxTx == 2
MaxAmount == 2
MaxRecords == 3
MaxClient == 2
MaxRunTx == 1
MaxLedgerRecords == 4
MaxShortRecords == 2

TxIds == 1..MaxTx
Amounts == 1..MaxAmount
Clients == 1..MaxClient
RunTxIds == 1..MaxRunTx

VARIABLES
    account,            \* the Account under test (account.rs:6-13)
    last,               \* the last call made on it and what it returned
    nops,               \* number of calls made so far
    deposited,          \* history: sum of the amounts of all deposits applied
    withdrawn,          \* history: sum of the amounts of all withdrawals applied
    charged_back,       \* history: sum of the amounts removed by chargebacks
    latest,             \* history: tx id -> amount of the latest deposit/withdrawal
    since_dispute,      \* history: ids deposited/withdrawn since their last successful dispute
    charged_ids,        \* history: ids on which a chargeback has succeeded
    sealed,             \* history: ids charged back with no deposit/withdrawal since the dispute closed
    only_dw,            \* history: TRUE while only deposit/withdraw have been called
    open_disputes,      \* history: ids with a successful dispute not closed by a resolve or chargeback since
    rt                  \* history: progress of a dispute(T), resolve(T), dispute(T) round trip

\* The run of the processor (reader.rs parse_csv, main.rs main).
VARIABLES
    accounts,           \* parse_csv's accounts: HashMap<u16, Account>
    pc,                 \* where the run is: "reading", "drained", "returned", "failed", "printed", "exited"
    line,               \* reader.position().line()
    record,             \* the ByteRecord last read: a sequence of fields
    record_line,        \* the line of the input on which that record stands
    error,              \* the Err parse_csv returned, NoError otherwise
    output,             \* the account rows main printed
    nread,              \* number of records read so far
    replayed,           \* history: the records read so far applied one after the other
    referenced          \* history: the client ids of the records applied so far

acctvars == <<account, last, nops, deposited, withdrawn, charged_back, latest,
              since_dispute, charged_ids, sealed, only_dw, open_disputes, rt>>

procvars == <<accounts, pc, line, record, record_line, error, output, nread,
              replayed, referenced>>

vars == <<acctvars, procvars>>

----------------------------------------------------------------------------
\* HashMap<u64, BigDecimal> as a function on the set of its keys.

EmptyMap == [k \in {} |-> 0]

Keys(m) == DOMAIN m

\* HashMap::insert: add the key or overwrite its value.
Insert(m, k, v) == [x \in (DOMAIN m) \cup {k} |-> IF x = k THEN v ELSE m[x]]

\* HashMap::remove: the map without the key.
Remove(m, k) == [x \in (DOMAIN m) \ {k} |-> m[x]]

\* The sum of the amounts a map holds.
RECURSIVE SumMap(_)
SumMap(m) ==
    IF DOMAIN m = {} THEN 0
    ELSE LET k == CHOOSE x \in DOMAIN m : TRUE
         IN m[k] + SumMap(Remove(m, k))

----------------------------------------------------------------------------
\* Account::new that opens the account with one unit available.
Account_new_Funded(client) ==
    [client |-> client,
     funds_available |-> 1,
     funds_held |-> 0,
     disputes |-> EmptyMap,
     disputable_transactions |-> EmptyMap,
     locked |-> FALSE]

\* Account::new: Default::default() for every field but client.
Account_new(client) ==
    [client |-> client,
     funds_available |-> 0,
     funds_held |-> 0,
     disputes |-> EmptyMap,
     disputable_transactions |-> EmptyMap,
     locked |-> FALSE]

Returned(self, result) == [account |-> self, result |-> result]

\* withdraw that refuses to overdraw: a sufficient-funds check.
withdraw_ChecksFunds(self, transaction_id, amount) ==
    IF amount > self.funds_available
    THEN Returned(self, "Ok")
    ELSE Returned([self EXCEPT
                     !.funds_available = @ - amount,
                     !.disputable_transactions = Insert(@, transaction_id, amount)],
                  "Ok")

\* withdraw that is rejected when the funds do not cover it.
withdraw_Rejects(self, transaction_id, amount) ==
    IF amount > self.funds_available
    THEN Returned(self, "InsufficientFunds")
    ELSE Returned([self EXCEPT
                     !.funds_available = @ - amount,
                     !.disputable_transactions = Insert(@, transaction_id, amount)],
                  "Ok")

\* withdraw that leaves a locked account alone.
withdraw_SkipsWhenLocked(self, transaction_id, amount) ==
    IF self.locked
    THEN Returned(self, "Ok")
    ELSE Returned([self EXCEPT
                     !.funds_available = @ - amount,
                     !.disputable_transactions = Insert(@, transaction_id, amount)],
                  "Ok")

\* Account::withdraw
withdraw(self, transaction_id, amount) ==
    Returned([self EXCEPT
                !.funds_available = @ - amount,
                !.disputable_transactions = Insert(@, transaction_id, amount)],
             "Ok")

\* deposit that ignores the call on a locked account.
deposit_SkipsWhenLocked(self, transaction_id, amount) ==
    IF self.locked
    THEN Returned(self, "Ok")
    ELSE Returned([self EXCEPT
                     !.funds_available = @ + amount,
                     !.disputable_transactions = Insert(@, transaction_id, amount)],
                  "Ok")

\* deposit that reopens a locked account.
deposit_Unlocks(self, transaction_id, amount) ==
    Returned([self EXCEPT
                !.funds_available = @ + amount,
                !.disputable_transactions = Insert(@, transaction_id, amount),
                !.locked = FALSE],
             "Ok")

\* Account::deposit
deposit(self, transaction_id, amount) ==
    Returned([self EXCEPT
                !.funds_available = @ + amount,
                !.disputable_transactions = Insert(@, transaction_id, amount)],
             "Ok")

\* resolve that does not put the id back into disputable_transactions.
resolve_NoReinsert(self, transaction_id) ==
    IF transaction_id \notin Keys(self.disputes)
    THEN Returned(self, "NoDispute")
    ELSE LET disputed_amount == self.disputes[transaction_id] IN
         Returned([self EXCEPT
                     !.disputes = Remove(@, transaction_id),
                     !.funds_available = @ + disputed_amount,
                     !.funds_held = @ - disputed_amount],
                  "Ok")

\* resolve that leaves the id in disputes.
resolve_KeepsDispute(self, transaction_id) ==
    IF transaction_id \notin Keys(self.disputes)
    THEN Returned(self, "NoDispute")
    ELSE LET disputed_amount == self.disputes[transaction_id] IN
         Returned([self EXCEPT
                     !.funds_available = @ + disputed_amount,
                     !.funds_held = @ - disputed_amount,
                     !.disputable_transactions =
                         Insert(@, transaction_id, disputed_amount)],
                  "Ok")

\* Account::resolve
resolve(self, transaction_id) ==
    IF transaction_id \notin Keys(self.disputes)
    THEN Returned(self, "NoDispute")
    ELSE LET disputed_amount == self.disputes[transaction_id] IN
         Returned([self EXCEPT
                     !.disputes = Remove(@, transaction_id),
                     !.funds_available = @ + disputed_amount,
                     !.funds_held = @ - disputed_amount,
                     !.disputable_transactions =
                         Insert(@, transaction_id, disputed_amount)],
                  "Ok")

\* chargeback that also takes the amount out of funds_available.
chargeback_DebitsAvailable(self, transaction_id) ==
    IF transaction_id \notin Keys(self.disputes)
    THEN Returned(self, "NoDispute")
    ELSE LET disputed_amount == self.disputes[transaction_id] IN
         Returned([self EXCEPT
                     !.disputes = Remove(@, transaction_id),
                     !.funds_available = @ - disputed_amount,
                     !.funds_held = @ - disputed_amount,
                     !.locked = TRUE],
                  "Ok")

\* chargeback that, like resolve, puts the id back into disputable_transactions.
chargeback_Reinserts(self, transaction_id) ==
    IF transaction_id \notin Keys(self.disputes)
    THEN Returned(self, "NoDispute")
    ELSE LET disputed_amount == self.disputes[transaction_id] IN
         Returned([self EXCEPT
                     !.disputes = Remove(@, transaction_id),
                     !.funds_held = @ - disputed_amount,
                     !.disputable_transactions =
                         Insert(@, transaction_id, disputed_amount),
                     !.locked = TRUE],
                  "Ok")

\* chargeback that locks the account before it looks the dispute up.
chargeback_LocksFirst(self, transaction_id) ==
    IF transaction_id \notin Keys(self.disputes)
    THEN Returned([self EXCEPT !.locked = TRUE], "NoDispute")
    ELSE LET disputed_amount == self.disputes[transaction_id] IN
         Returned([self EXCEPT
                     !.disputes = Remove(@, transaction_id),
                     !.funds_held = @ - disputed_amount,
                     !.locked = TRUE],
                  "Ok")

\* chargeback that forgets to lock the account.
chargeback_NoLock(self, transaction_id) ==
    IF transaction_id \notin Keys(self.disputes)
    THEN Returned(self, "NoDispute")
    ELSE LET disputed_amount == self.disputes[transaction_id] IN
         Returned([self EXCEPT
                     !.disputes = Remove(@, transaction_id),
                     !.funds_held = @ - disputed_amount],
                  "Ok")

\* chargeback that takes the amount out of funds_held twice.
chargeback_DebitsTwice(self, transaction_id) ==
    IF transaction_id \notin Keys(self.disputes)
    THEN Returned(self, "NoDispute")
    ELSE LET disputed_amount == self.disputes[transaction_id] IN
         Returned([self EXCEPT
                     !.disputes = Remove(@, transaction_id),
                     !.funds_held = @ - 2 * disputed_amount,
                     !.locked = TRUE],
                  "Ok")

\* Account::chargeback
chargeback(self, transaction_id) ==
    IF transaction_id \notin Keys(self.disputes)
    THEN Returned(self, "NoDispute")
    ELSE LET disputed_amount == self.disputes[transaction_id] IN
         Returned([self EXCEPT
                     !.disputes = Remove(@, transaction_id),
                     !.funds_held = @ - disputed_amount,
                     !.locked = TRUE],
                  "Ok")

\* dispute that takes the amount out of funds_available without holding it.
dispute_NoHold(self, transaction_id) ==
    IF transaction_id \notin Keys(self.disputable_transactions)
    THEN Returned(self, "NoTransaction")
    ELSE LET disputed_amount == self.disputable_transactions[transaction_id] IN
         Returned([self EXCEPT
                     !.disputable_transactions = Remove(@, transaction_id),
                     !.funds_available = @ - disputed_amount,
                     !.disputes = Insert(@, transaction_id, disputed_amount)],
                  "Ok")

\* dispute that leaves the id in disputable_transactions.
dispute_KeepsDisputable(self, transaction_id) ==
    IF transaction_id \notin Keys(self.disputable_transactions)
    THEN Returned(self, "NoTransaction")
    ELSE LET disputed_amount == self.disputable_transactions[transaction_id] IN
         Returned([self EXCEPT
                     !.funds_available = @ - disputed_amount,
                     !.funds_held = @ + disputed_amount,
                     !.disputes = Insert(@, transaction_id, disputed_amount)],
                  "Ok")

\* Account::dispute
dispute(self, transaction_id) ==
    IF transaction_id \notin Keys(self.disputable_transactions)
    THEN Returned(self, "NoTransaction")
    ELSE LET disputed_amount == self.disputable_transactions[transaction_id] IN
         Returned([self EXCEPT
                     !.disputable_transactions = Remove(@, transaction_id),
                     !.funds_available = @ - disputed_amount,
                     !.funds_held = @ + disputed_amount,
                     !.disputes = Insert(@, transaction_id, disputed_amount)],
                  "Ok")

----------------------------------------------------------------------------
\* The call record kept in `last`.
Call(op, tx, amount, result) ==
    [op |-> op, tx |-> tx, amount |-> amount, result |-> result]

NoCall == Call("new", 0, 0, "Ok")

\* The dispatch on the transaction type (parse_csv's match).
Apply(self, op, tx, amount) ==
    CASE op = "deposit"    -> deposit(self, tx, amount)
      [] op = "withdraw"   -> withdraw(self, tx, amount)
      [] op = "dispute"    -> dispute(self, tx)
      [] op = "resolve"    -> resolve(self, tx)
      [] op = "chargeback" -> chargeback(self, tx)

\* The four ledger fields of two accounts agree.
SameLedger(a, b) ==
    /\ a.funds_available = b.funds_available
    /\ a.funds_held = b.funds_held
    /\ a.disputable_transactions = b.disputable_transactions
    /\ a.disputes = b.disputes

\* Round-trip tracking, as test_resolve_makes_transaction_disputable_again
\* observes it: stage 1 right after a successful dispute(T) (snap is the
\* account then), stage 2 right after the resolve(T) that follows it; the
\* verdict is given by the dispute(T) that follows that.
RoundTrip(stage, tx, snap, verdict) ==
    [stage |-> stage, tx |-> tx, snap |-> snap, verdict |-> verdict]

NoRoundTrip(verdict) == RoundTrip(0, 0, Account_new(1), verdict)

RoundTripStep(r, c, after) ==
    IF c.op = "dispute"
    THEN IF c.result = "Ok"
         THEN RoundTrip(1, c.tx, after,
                        IF r.stage = 2 /\ r.tx = c.tx
                        THEN (IF SameLedger(after, r.snap) THEN "same" ELSE "differs")
                        ELSE "none")
         ELSE NoRoundTrip(IF r.stage = 2 /\ r.tx = c.tx THEN "refused" ELSE "none")
    ELSE IF c.op = "resolve" /\ r.stage = 1 /\ r.tx = c.tx
    THEN IF c.result = "Ok"
         THEN RoundTrip(2, c.tx, r.snap, "none")
         ELSE NoRoundTrip("refused")
    ELSE NoRoundTrip("none")

----------------------------------------------------------------------------
\* The fields of a record are sequences of characters (one-character strings),
\* the transaction type a string.

Digits == <<"0", "1", "2", "3", "4", "5", "6", "7", "8", "9">>

IsDigit(ch) == \E i \in 1..10 : Digits[i] = ch

DigitValue(ch) == (CHOOSE i \in 1..10 : Digits[i] = ch) - 1

\* The text of a small number, as the input writes it.
ToField(n) == <<Digits[n + 1]>>

IsWhitespace(ch) == ch \in {" ", "\t", "\n", "\r"}

RECURSIVE TrimStart(_)
TrimStart(bytes) ==
    IF bytes # <<>> /\ IsWhitespace(Head(bytes)) THEN TrimStart(Tail(bytes)) ELSE bytes

RECURSIVE TrimEnd(_)
TrimEnd(bytes) ==
    IF bytes # <<>> /\ IsWhitespace(bytes[Len(bytes)])
    THEN TrimEnd(SubSeq(bytes, 1, Len(bytes) - 1))
    ELSE bytes

\* trim_ascii
trim_ascii(bytes) == TrimEnd(TrimStart(bytes))

RECURSIVE DecimalValue(_)
DecimalValue(digits) ==
    IF digits = <<>> THEN 0
    ELSE 10 * DecimalValue(SubSeq(digits, 1, Len(digits) - 1))
         + DigitValue(digits[Len(digits)])

U16Max == 65535

\* Number of fractional digits of an Amount (ConstScaleFpdec<i64, 4>).
Scale == 4

RECURSIVE Pow10(_)
Pow10(n) == IF n = 0 THEN 1 ELSE 10 * Pow10(n - 1)

Ok(value) == [ok |-> TRUE, value |-> value]

\* An Error value: its variant and the fields the variant carries
\* (0 where the variant carries none).
Err(kind, tx, line_number) ==
    [ok |-> FALSE, kind |-> kind, tx |-> tx, line |-> line_number]

NoError == Err("none", 0, 0)

None == [some |-> FALSE]

Some(v) == [some |-> TRUE, v |-> v]

\* record.get(i): the field at index i (from 0), if the record has one.
Get(rec, i) == IF i + 1 <= Len(rec) THEN Some(rec[i + 1]) ELSE None

\* lexical_core::parse::<u16>: all digits and within the type.
parse_u16(bytes) ==
    IF bytes # <<>> /\ (\A i \in 1..Len(bytes) : IsDigit(bytes[i]))
       /\ DecimalValue(bytes) <= U16Max
    THEN Ok(DecimalValue(bytes))
    ELSE Err("LexicalParse", 0, 0)

\* lexical_core::parse::<u64>: all digits (the ids of the model are far
\* below the 2^64 at which the type overflows).
parse_u64(bytes) ==
    IF bytes # <<>> /\ (\A i \in 1..Len(bytes) : IsDigit(bytes[i]))
    THEN Ok(DecimalValue(bytes))
    ELSE Err("LexicalParse", 0, 0)

\* parse_transaction_type
parse_transaction_type(raw, line_number) ==
    IF raw \in {"deposit", "withdrawal", "dispute", "resolve", "chargeback"}
    THEN Ok(raw)
    ELSE Err("UnknownTransactionType", 0, line_number)

\* str::parse::<ConstScaleFpdec<i64, 4>>: digits with at most Scale
\* fractional digits; the value counts units of 10^-Scale.
parse_fpdec(bytes) ==
    LET dots == {i \in 1..Len(bytes) : bytes[i] = "."}
        dot == IF dots = {} THEN Len(bytes) + 1 ELSE CHOOSE i \in dots : TRUE
        int == SubSeq(bytes, 1, dot - 1)
        frac == SubSeq(bytes, dot + 1, Len(bytes))
    IN IF /\ Cardinality(dots) <= 1
          /\ int # <<>>
          /\ (dots # {} => frac # <<>>)
          /\ \A i \in 1..Len(int) : IsDigit(int[i])
          /\ \A i \in 1..Len(frac) : IsDigit(frac[i])
          /\ Len(frac) <= Scale
       THEN Ok(DecimalValue(int) * Pow10(Scale)
               + DecimalValue(frac) * Pow10(Scale - Len(frac)))
       ELSE Err("Parse", 0, 0)

\* parse_scaled_value
parse_scaled_value(byte_array, line_number) ==
    LET b == trim_ascii(byte_array) IN
    IF b = <<>> THEN Ok(None)
    ELSE IF b[1] = "-" THEN Err("NegativeAmount", 0, line_number)
    ELSE LET r == parse_fpdec(b) IN
         IF r.ok THEN Ok(Some(r.value)) ELSE r

\* The error of the account with the transaction id it names
\* (AccountError::NoTransaction(tx_id), AccountError::NoDispute(tx_id)).
AccountError(kind, tx_id) == [kind |-> kind, tx |-> tx_id]

\* The .map_err(..) of the three dispute arms: the account's error with the
\* line number added.
map_err(err, line_number) == Err(err.kind, err.tx, line_number)

EmptyAccounts == [c \in {} |-> Account_new(c)]

\* The entry that puts a new account in place of the one the map has.
or_insert_with_key_Replaces(accs, client) ==
    [c \in (DOMAIN accs) \cup {client} |->
        IF c = client THEN Account_new(client) ELSE accs[c]]

\* The entry that opens a new account with the ledger of an account the
\* map already has.
or_insert_with_key_Inherits(accs, client) ==
    IF client \in DOMAIN accs THEN accs
    ELSE [c \in (DOMAIN accs) \cup {client} |->
            IF c # client THEN accs[c]
            ELSE IF DOMAIN accs = {} THEN Account_new(client)
            ELSE [accs[CHOOSE x \in DOMAIN accs : TRUE] EXCEPT !.client = client]]

\* accounts.entry(client).or_insert_with_key(|&client| Account::new(client))
or_insert_with_key(accs, client) ==
    IF client \in DOMAIN accs THEN accs
    ELSE [c \in (DOMAIN accs) \cup {client} |->
            IF c = client THEN Account_new(client) ELSE accs[c]]

\* The write that lands in one ledger all clients share.
Store_Shared(accs, client, acct) ==
    [c \in DOMAIN accs |-> [acct EXCEPT !.client = c]]

\* The write that carries the lock of the account to every other account.
Store_LocksAll(accs, client, acct) ==
    [c \in DOMAIN accs |->
        IF c = client THEN acct
        ELSE [accs[c] EXCEPT !.locked = @ \/ acct.locked]]

\* The account after the call, written back through the &mut from entry().
Store(accs, client, acct) == [accs EXCEPT ![client] = acct]

ToOp(transaction_type) ==
    IF transaction_type = "withdrawal" THEN "withdraw" ELSE transaction_type

\* The match that goes on with the next record when the account refuses.
dispatch_IgnoresErrors(acct, transaction_type, transaction_id, amount_row, line_number) ==
    IF transaction_type \in {"deposit", "withdrawal"}
    THEN IF ~amount_row.some
         THEN [account |-> acct, result |-> Err("MissingAmount", 0, line_number)]
         ELSE [account |-> Apply(acct, ToOp(transaction_type), transaction_id,
                                 amount_row.v).account,
               result |-> Ok(0)]
    ELSE [account |-> Apply(acct, transaction_type, transaction_id, 0).account,
          result |-> Ok(0)]

\* The match that asks a dispute, resolve or chargeback row for an amount.
dispatch_AmountRequired(acct, transaction_type, transaction_id, amount_row, line_number) ==
    IF ~amount_row.some
    THEN [account |-> acct, result |-> Err("MissingAmount", 0, line_number)]
    ELSE IF transaction_type \in {"deposit", "withdrawal"}
    THEN [account |-> Apply(acct, ToOp(transaction_type), transaction_id,
                            amount_row.v).account,
          result |-> Ok(0)]
    ELSE LET r == Apply(acct, transaction_type, transaction_id, 0) IN
         IF r.result = "Ok"
         THEN [account |-> r.account, result |-> Ok(0)]
         ELSE [account |-> r.account,
               result |-> map_err(AccountError(r.result, transaction_id), line_number)]

\* parse_csv: match transaction_type { .. }. The Result of deposit and
\* withdraw is not looked at; an error of dispute, resolve or chargeback is
\* mapped and returned.
dispatch(acct, transaction_type, transaction_id, amount_row, line_number) ==
    IF transaction_type \in {"deposit", "withdrawal"}
    THEN IF ~amount_row.some
         THEN [account |-> acct, result |-> Err("MissingAmount", 0, line_number)]
         ELSE [account |-> Apply(acct, ToOp(transaction_type), transaction_id,
                                 amount_row.v).account,
               result |-> Ok(0)]
    ELSE LET r == Apply(acct, transaction_type, transaction_id, 0) IN
         IF r.result = "Ok"
         THEN [account |-> r.account, result |-> Ok(0)]
         ELSE [account |-> r.account,
               result |-> map_err(AccountError(r.result, transaction_id), line_number)]

Step(accs, result) == [accounts |-> accs, result |-> result]

\* One pass through the body of parse_csv's while loop: the fields are
\* parsed in order, each `?` returning its error; then the account is
\* looked up or created and the record dispatched to it.
parse_csv_body(accs, rec, line_number) ==
    LET f0 == Get(rec, 0)
        ty == IF f0.some THEN parse_transaction_type(f0.v, line_number)
              ELSE Err("MissingTransactionType", 0, line_number)
        f1 == Get(rec, 1)
        cl == IF f1.some THEN parse_u16(f1.v)
              ELSE Err("MissingClient", 0, line_number)
        f2 == Get(rec, 2)
        tx == IF f2.some THEN parse_u64(f2.v)
              ELSE Err("MissingTransactionId", 0, line_number)
        f3 == Get(rec, 3)
        am == IF f3.some THEN parse_scaled_value(f3.v, line_number) ELSE Ok(None)
    IN IF ~ty.ok THEN Step(accs, ty)
       ELSE IF ~cl.ok THEN Step(accs, cl)
       ELSE IF ~tx.ok THEN Step(accs, tx)
       ELSE IF ~am.ok THEN Step(accs, am)
       ELSE LET created == or_insert_with_key(accs, cl.value)
                d == dispatch(created[cl.value], ty.value, tx.value, am.value,
                              line_number)
            IN Step(Store(created, cl.value, d.account), d.result)

\* AccountRecord::from
AccountRecord(acct) ==
    [client |-> acct.client,
     available |-> acct.funds_available,
     held |-> acct.funds_held,
     total |-> acct.funds_held + acct.funds_available,
     locked |-> acct.locked]

\* write_accounts: one row for each account of the map.
write_accounts(accs) == {AccountRecord(accs[c]) : c \in DOMAIN accs}

Init ==
    /\ accounts = EmptyAccounts
    /\ pc = "reading"
    /\ line = 1
    /\ record = <<>>
    /\ record_line = 0
    /\ error = NoError
    /\ output = {}
    /\ nread = 0
    /\ replayed = EmptyAccounts
    /\ referenced = {}
    /\ account = Account_new(1)
    /\ last = NoCall
    /\ nops = 0
    /\ deposited = 0
    /\ withdrawn = 0
    /\ charged_back = 0
    /\ latest = EmptyMap
    /\ since_dispute = {}
    /\ charged_ids = {}
    /\ sealed = {}
    /\ only_dw = TRUE
    /\ open_disputes = {}
    /\ rt = NoRoundTrip("none")

\* account.deposit(tx, &amount)
Deposit(tx, amount) ==
    /\ nops < MaxOps
    /\ LET r == deposit(account, tx, amount) IN
         /\ account' = r.account
         /\ last' = Call("deposit", tx, amount, r.result)
         /\ rt' = RoundTripStep(rt, last', r.account)
    /\ nops' = nops + 1
    /\ deposited' = deposited + amount
    /\ latest' = Insert(latest, tx, amount)
    /\ since_dispute' = since_dispute \cup {tx}
    /\ sealed' = sealed \ {tx}
    /\ UNCHANGED <<withdrawn, charged_back, charged_ids, only_dw>>
    /\ UNCHANGED open_disputes
    /\ UNCHANGED procvars

\* account.withdraw(tx, &amount)
Withdraw(tx, amount) ==
    /\ nops < MaxOps
    /\ LET r == withdraw(account, tx, amount) IN
         /\ account' = r.account
         /\ last' = Call("withdraw", tx, amount, r.result)
         /\ rt' = RoundTripStep(rt, last', r.account)
    /\ nops' = nops + 1
    /\ withdrawn' = withdrawn + amount
    /\ latest' = Insert(latest, tx, amount)
    /\ since_dispute' = since_dispute \cup {tx}
    /\ sealed' = sealed \ {tx}
    /\ UNCHANGED <<deposited, charged_back, charged_ids, only_dw>>
    /\ UNCHANGED open_disputes
    /\ UNCHANGED procvars

\* account.dispute(tx)
Dispute(tx) ==
    /\ nops < MaxOps
    /\ LET r == dispute(account, tx) IN
         /\ account' = r.account
         /\ last' = Call("dispute", tx, 0, r.result)
         /\ rt' = RoundTripStep(rt, last', r.account)
         /\ since_dispute' = IF r.result = "Ok" THEN since_dispute \ {tx}
                                                ELSE since_dispute
    /\ nops' = nops + 1
    /\ only_dw' = FALSE
    /\ UNCHANGED <<deposited, withdrawn, charged_back, latest, charged_ids, sealed>>
    /\ open_disputes' = IF last'.result = "Ok" THEN open_disputes \cup {tx}
                                              ELSE open_disputes
    /\ UNCHANGED procvars

\* account.resolve(tx)
Resolve(tx) ==
    /\ nops < MaxOps
    /\ LET r == resolve(account, tx) IN
         /\ account' = r.account
         /\ last' = Call("resolve", tx, 0, r.result)
         /\ rt' = RoundTripStep(rt, last', r.account)
    /\ nops' = nops + 1
    /\ only_dw' = FALSE
    /\ UNCHANGED <<deposited, withdrawn, charged_back, latest, since_dispute,
                   charged_ids, sealed>>
    /\ open_disputes' = IF last'.result = "Ok" THEN open_disputes \ {tx}
                                              ELSE open_disputes
    /\ UNCHANGED procvars

\* account.chargeback(tx)
Chargeback(tx) ==
    /\ nops < MaxOps
    /\ LET r == chargeback(account, tx) IN
         /\ account' = r.account
         /\ last' = Call("chargeback", tx, 0, r.result)
         /\ rt' = RoundTripStep(rt, last', r.account)
         /\ charged_back' = IF r.result = "Ok"
                            THEN charged_back + account.disputes[tx]
                            ELSE charged_back
         /\ charged_ids' = IF r.result = "Ok" THEN charged_ids \cup {tx}
                                              ELSE charged_ids
         /\ sealed' = IF r.result = "Ok" /\ tx \notin since_dispute
                      THEN sealed \cup {tx}
                      ELSE sealed
    /\ nops' = nops + 1
    /\ only_dw' = FALSE
    /\ UNCHANGED <<deposited, withdrawn, latest, since_dispute>>
    /\ open_disputes' = IF last'.result = "Ok" THEN open_disputes \ {tx}
                                              ELSE open_disputes
    /\ UNCHANGED procvars

Next ==
    \/ \E tx \in TxIds, amount \in Amounts : Deposit(tx, amount)
    \/ \E tx \in TxIds, amount \in Amounts : Withdraw(tx, amount)
    \/ \E tx \in TxIds : Dispute(tx)
    \/ \E tx \in TxIds : Resolve(tx)
    \/ \E tx \in TxIds : Chargeback(tx)

Spec == Init /\ [][Next]_vars

----------------------------------------------------------------------------
\* The input of a run: rows of text, each with what it asks for when it is
\* well formed (op "none" when it is not).

Row(fields, op, client, tx, units) ==
    [fields |-> fields, op |-> op, client |-> client, tx |-> tx, units |-> units]

TransactionTypes == {"deposit", "withdrawal", "dispute", "resolve", "chargeback"}

\* Texts of the amount field: blank, an amount, a negative literal and a
\* malformed one.
AmountFields == {<<" ">>, <<"1", ".", "5">>, <<"-", "2">>, <<"x">>}

\* What a well-formed amount text stands for, in units of 10^-4.
AmountUnits(text) ==
    IF text = <<"1", ".", "5">> THEN 15000 ELSE 0

WellFormedAmount(text) == AmountUnits(text) > 0

RowOp(ty, text) ==
    IF ty \in {"deposit", "withdrawal"} /\ ~WellFormedAmount(text) THEN "none"
    ELSE ToOp(ty)

InputRows ==
    {Row(<<ty, ToField(c), ToField(t), a>>, RowOp(ty, a), c, t, AmountUnits(a)) :
        ty \in TransactionTypes, c \in Clients, t \in RunTxIds, a \in AmountFields}
    \cup
    {Row(<<ty, ToField(c), ToField(t)>>, RowOp(ty, <<>>), c, t, 0) :
        ty \in TransactionTypes, c \in Clients, t \in RunTxIds}
    \cup
    {Row(<<"refund", <<"1">>, <<"1">>, <<"2">>>>, "none", 1, 1, 0),
     Row(<<"deposit">>, "none", 0, 0, 0),
     Row(<<"deposit", <<"x">>, <<"1">>, <<"2">>>>, "none", 0, 1, 0),
     Row(<<"deposit", <<"7", "0", "0", "0", "0">>, <<"1">>, <<"2">>>>, "none", 0, 1, 0),
     Row(<<"deposit", <<"1">>>>, "none", 1, 0, 0),
     Row(<<"deposit", <<"1">>, <<"x">>, <<"2">>>>, "none", 1, 0, 0)}

\* The record applied to a map of accounts on its own account, created
\* with Account::new when the client has none.
Replay(accs, row) ==
    LET before == IF row.client \in DOMAIN accs THEN accs[row.client]
                  ELSE Account_new(row.client)
        after == Apply(before, row.op, row.tx, row.units).account
    IN [c \in (DOMAIN accs) \cup {row.client} |->
          IF c = row.client THEN after ELSE accs[c]]

\* The account the record of a client is dispatched to: the one the map
\* has, or the one entry().or_insert_with_key makes.
AccountOf(accs, client) ==
    IF client \in DOMAIN accs THEN accs[client] ELSE Account_new(client)

\* The row whose text is the record.
RowOf(fields) == CHOOSE row \in InputRows : row.fields = fields

\* while reader.read_byte_record(&mut record)? { .. }: the reader hands
\* out the next record (after the header line, on the first call) and the
\* body of the loop runs on it. Each record stands on a line of its own;
\* reader.position() is where the next read starts, so it is on the line
\* after the record when the record ends with a line terminator, and
\* still on the record's line when the input ends without one (only the
\* last record can: pc "drained" has nothing left to read).
Read(row, terminated, limit) ==
    /\ pc = "reading"
    /\ nread < limit
    /\ record' = row.fields
    /\ record_line' = IF nread = 0 THEN line + 1 ELSE line
    /\ line' = IF terminated THEN record_line' + 1 ELSE record_line'
    /\ nread' = nread + 1
    /\ LET r == parse_csv_body(accounts, row.fields, line') IN
         IF r.result.ok
         THEN /\ accounts' = r.accounts
              /\ error' = NoError
              /\ pc' = IF terminated THEN "reading" ELSE "drained"
              /\ replayed' = Replay(replayed, row)
              /\ referenced' = referenced \cup {row.client}
         ELSE /\ accounts' = EmptyAccounts
              /\ error' = r.result
              /\ pc' = "failed"
              /\ UNCHANGED <<replayed, referenced>>
    /\ UNCHANGED output
    /\ UNCHANGED acctvars

\* A read of any row of the input, well formed or not.
ReadRecord(row, terminated) == Read(row, terminated, MaxRecords)

\* read_byte_record returns false: parse_csv returns Ok(accounts).
EndOfInput ==
    /\ pc \in {"reading", "drained"}
    /\ pc' = "returned"
    /\ line' = IF nread = 0 THEN line + 1 ELSE line
    /\ UNCHANGED <<accounts, record, record_line, error, output, nread,
                   replayed, referenced>>
    /\ UNCHANGED acctvars

\* main: write_accounts(accounts) and print!.
PrintAccounts ==
    /\ pc = "returned"
    /\ output' = write_accounts(accounts)
    /\ pc' = "printed"
    /\ UNCHANGED <<accounts, line, record, record_line, error, nread,
                   replayed, referenced>>
    /\ UNCHANGED acctvars

\* The handler that goes back to the loop after an error.
ExitWithError_Resumes ==
    /\ pc = "failed"
    /\ pc' = "reading"
    /\ UNCHANGED <<accounts, line, record, record_line, error, output, nread,
                   replayed, referenced>>
    /\ UNCHANGED acctvars

\* main: eprintln!("Error: {err}") and std::process::exit(1).
ExitWithError ==
    /\ pc = "failed"
    /\ pc' = "exited"
    /\ UNCHANGED <<accounts, line, record, record_line, error, output, nread,
                   replayed, referenced>>
    /\ UNCHANGED acctvars

NextRun ==
    \/ \E row \in InputRows, terminated \in BOOLEAN : ReadRecord(row, terminated)
    \/ EndOfInput
    \/ PrintAccounts
    \/ ExitWithError

SpecRun == Init /\ [][NextRun]_vars

\* Runs over short inputs of any rows, for termination. The run is one
\* thread with no suspension point: while a step of it can be taken, one
\* is taken.
ReadShortRecord(row, terminated) == Read(row, terminated, MaxShortRecords)

NextShortRun ==
    \/ \E row \in InputRows, terminated \in BOOLEAN : ReadShortRecord(row, terminated)
    \/ EndOfInput
    \/ PrintAccounts
    \/ ExitWithError

FairSpecShortRun == Init /\ [][NextShortRun]_vars /\ WF_vars(NextShortRun)

\* Runs over well-formed rows only, each ended by a newline: a deposit or
\* withdrawal with an amount, a dispute, resolve or chargeback without
\* one. The ledger alone decides how such a run ends, and the smaller
\* input leaves room for one record more.
LedgerRows ==
    {row \in InputRows :
        /\ row.op # "none"
        /\ Len(row.fields) = IF row.op \in {"deposit", "withdraw"} THEN 4 ELSE 3}

ReadLedgerRecord(row) == Read(row, TRUE, MaxLedgerRecords)

NextLedgerRun ==
    \/ \E row \in LedgerRows : ReadLedgerRecord(row)
    \/ EndOfInput
    \/ PrintAccounts
    \/ ExitWithError

SpecLedgerRun == Init /\ [][NextLedgerRun]_vars

----------------------------------------------------------------------------
\* Shorthands used by the properties.

Total(a) == a.funds_available + a.funds_held

Succeeded(c, ops) == c.op \in ops /\ c.result = "Ok"

DisputeOps == {"dispute", "resolve", "chargeback"}

----------------------------------------------------------------------------
\* C1 (as stated): in every reachable state available + held equals the sum
\* of the deposits applied minus the sum of the withdrawals applied, whatever
\* disputes, resolves and chargebacks happened.
C1_TotalIsDepositsMinusWithdrawals ==
    Total(account) = deposited - withdrawn

\* C1 (amended): in every reachable state available + held equals the sum of
\* the deposits applied minus the sum of the withdrawals applied minus the
\* sum of the amounts removed by successful chargebacks.
C1_TotalIsNetOfChargebacks ==
    Total(account) = deposited - withdrawn - charged_back

\* A chargeback has just removed funds and the total differs from the plain
\* deposits-minus-withdrawals sum.
C1_Witness ==
    /\ Succeeded(last, {"chargeback"})
    /\ charged_back > 0
    /\ deposited > 0
    /\ withdrawn > 0

\* C2: in every reachable state no transaction id is a key of both
\* disputable_transactions and disputes.
C2_MapsDisjoint ==
    Keys(account.disputable_transactions) \cap Keys(account.disputes) = {}

\* C3 (as stated): once chargeback(T) has succeeded, no later dispute(T),
\* resolve(T) or chargeback(T) succeeds, whatever is applied afterwards.
C3_ChargedBackIdIsDead ==
    [][\A t \in charged_ids :
          ~(last'.tx = t /\ Succeeded(last', DisputeOps))]_vars

\* C3 (amended): once chargeback(T) has succeeded, dispute(T), resolve(T)
\* and chargeback(T) all fail for as long as no deposit or withdrawal with id
\* T has been applied since the dispute(T) that the chargeback closed.
C3_SealedIdIsDead ==
    [][\A t \in sealed :
          ~(last'.tx = t /\ Succeeded(last', DisputeOps))]_vars

\* A dispute, resolve or chargeback of a sealed id has just been refused.
C3_Witness ==
    /\ last.tx \in sealed
    /\ last.op \in DisputeOps
    /\ last.result # "Ok"
    /\ Keys(account.disputable_transactions) # {}

\* C4: dispute(T) with T not a key of disputable_transactions fails with
\* NoTransaction, resolve(T) and chargeback(T) with T not a key of disputes
\* fail with NoDispute, and a failing call leaves the whole account as it was.
C4_FailedCallChangesNothing ==
    [][/\ (last'.op = "dispute"
            /\ last'.tx \notin Keys(account.disputable_transactions))
           => (last'.result = "NoTransaction" /\ account' = account)
       /\ (last'.op \in {"resolve", "chargeback"}
            /\ last'.tx \notin Keys(account.disputes))
           => (last'.result = "NoDispute" /\ account' = account)
       /\ last'.result # "Ok" => account' = account]_vars

\* A resolve or chargeback has just failed on an account that holds funds
\* for another dispute.
C4_Witness ==
    /\ last.op \in {"resolve", "chargeback"}
    /\ last.result = "NoDispute"
    /\ account.funds_held > 0
    /\ ~account.locked


\* C5: every successful dispute(T) moves exactly the amount of the most
\* recently applied deposit or withdrawal with id T from available to held.
C5_DisputeMovesLatestAmount ==
    [][Succeeded(last', {"dispute"}) =>
          /\ account'.funds_held - account.funds_held = latest[last'.tx]
          /\ account.funds_available - account'.funds_available = latest[last'.tx]]_vars

\* C6: once locked is true it is true in every later state.
C6_LockedStaysLocked ==
    [][account.locked => account'.locked]_vars

\* A locked account on which a deposit and a dispute have succeeded since
\* the chargeback.
C6_Witness ==
    /\ account.locked
    /\ Succeeded(last, {"dispute"})
    /\ account.funds_held > 0

\* C7: a successful dispute(T) and a successful resolve(T) leave
\* available + held and locked unchanged; dispute takes the stored amount
\* from available and adds it to held, resolve does the reverse.
C7_DisputeResolveKeepTotal ==
    [][/\ Succeeded(last', {"dispute", "resolve"}) =>
            /\ Total(account') = Total(account)
            /\ account'.locked = account.locked
       /\ Succeeded(last', {"dispute"}) =>
            LET a == account.disputable_transactions[last'.tx] IN
            /\ account'.funds_available = account.funds_available - a
            /\ account'.funds_held = account.funds_held + a
       /\ Succeeded(last', {"resolve"}) =>
            LET a == account.disputes[last'.tx] IN
            /\ account'.funds_available = account.funds_available + a
            /\ account'.funds_held = account.funds_held - a]_vars

\* A resolve has just succeeded while another dispute is still open.
C7_Witness ==
    /\ Succeeded(last, {"resolve"})
    /\ account.funds_held > 0
    /\ last.tx \in Keys(account.disputable_transactions)

\* C8: after any sequence of deposits and withdrawals only, available is
\* the sum of the deposits minus the sum of the withdrawals, held is 0 and
\* locked is false.
C8_DepositsWithdrawalsOnly ==
    only_dw =>
        /\ account.funds_available = deposited - withdrawn
        /\ account.funds_held = 0
        /\ ~account.locked

\* Deposits and withdrawals only, with the account overdrawn.
C8_Witness ==
    /\ only_dw
    /\ nops >= 3
    /\ deposited > 0
    /\ withdrawn > deposited
    /\ account.funds_available < 0

\* C9: right after a successful dispute(T), resolve(T) succeeds, the
\* dispute(T) after it succeeds, and the account has the available, held,
\* disputable_transactions and disputes it had after the first dispute(T).
C9_ResolveDisputeRoundTrip ==
    rt.verdict \notin {"refused", "differs"}

\* A dispute(T), resolve(T), dispute(T) round trip has just completed.
C9_Witness ==
    /\ rt.verdict = "same"
    /\ Succeeded(last, {"dispute"})

----------------------------------------------------------------------------
C12_NeverRejected ==
    [][/\ last'.op \in {"deposit", "withdraw"} => last'.result = "Ok"
       /\ last'.op = "withdraw" =>
             account'.funds_available = account.funds_available - last'.amount
       /\ last'.op = "deposit" =>
             account'.funds_available = account.funds_available + last'.amount
       /\ last'.result \in {"Ok", "NoTransaction", "NoDispute"}]_vars

\* A withdrawal larger than everything ever deposited has just succeeded.
C12_Witness ==
    /\ Succeeded(last, {"withdraw"})
    /\ deposited > 0
    /\ last.amount > deposited
    /\ account.funds_available < 0
    /\ ~account.locked

\* C17: a successful dispute(T), with a the amount stored for T, sets
\* available to available - a and held to held + a, removes T from
\* disputable_transactions and inserts T -> a into disputes, whether T was
\* recorded by a deposit or by a withdrawal.
C17_DisputeEffect ==
    [][Succeeded(last', {"dispute"}) =>
          LET t == last'.tx
              a == account.disputable_transactions[t]
          IN /\ account' = [account EXCEPT
                               !.funds_available = @ - a,
                               !.funds_held = @ + a,
                               !.disputable_transactions = Remove(@, t),
                               !.disputes = Insert(@, t, a)]
             /\ t \notin Keys(account'.disputable_transactions)
             /\ account'.disputes[t] = a]_vars

\* A withdrawal has been disputed: available is down by twice its amount.
C17_Witness ==
    /\ Succeeded(last, {"dispute"})
    /\ deposited = 0
    /\ withdrawn > 0
    /\ account.funds_held = withdrawn
    /\ account.funds_available = 0 - 2 * withdrawn

\* C18: a successful chargeback(T), with a the disputed amount, sets held
\* to held - a and locked to true, removes T from disputes and leaves
\* available and disputable_transactions as they were.
C18_ChargebackEffect ==
    [][Succeeded(last', {"chargeback"}) =>
          LET t == last'.tx
              a == account.disputes[t]
          IN /\ account'.funds_held = account.funds_held - a
             /\ account'.locked
             /\ account'.disputes = Remove(account.disputes, t)
             /\ account'.funds_available = account.funds_available
             /\ account'.disputable_transactions = account.disputable_transactions
             /\ t \notin Keys(account'.disputes)]_vars

\* A chargeback has just succeeded while another dispute stays held.
C18_Witness ==
    /\ Succeeded(last, {"chargeback"})
    /\ account.funds_held > 0
    /\ Keys(account.disputes) # {}
    /\ last.tx \notin Keys(account.disputable_transactions)

----------------------------------------------------------------------------
\* Properties of a run of the processor (SpecRun).

\* C13: the run is fail-fast. A record whose dispute, resolve or chargeback
\* the ledger of its client refuses ends the run in failure at that record;
\* after a failure no further record is read, no account is kept and the
\* only step left is the exit; and account rows are output only by a run
\* that read all its input without an error.
C13_FailFast ==
    [][/\ (nread' = nread + 1 /\ RowOf(record').op \in DisputeOps) =>
             LET row == RowOf(record')
                 own == AccountOf(accounts, row.client)
                 refused ==
                     IF row.op = "dispute"
                     THEN row.tx \notin Keys(own.disputable_transactions)
                     ELSE row.tx \notin Keys(own.disputes)
             IN refused => (pc' = "failed" /\ error' # NoError /\ output' = {})
       /\ pc \in {"failed", "exited"} =>
             /\ pc' = "exited"
             /\ nread' = nread
             /\ accounts' = accounts
             /\ output' = {}
       /\ output' # output =>
             /\ pc = "returned"
             /\ pc' = "printed"
             /\ error = NoError
             /\ output' = write_accounts(replayed)]_vars

\* The second record was refused by the ledger after the first was applied,
\* and the run has exited with nothing output.
C13_Witness ==
    /\ pc = "exited"
    /\ error.kind \in {"NoTransaction", "NoDispute"}
    /\ nread = 2
    /\ DOMAIN replayed # {}
    /\ output = {}

\* C14 (as stated): the error of a run that a ledger operation ended has the
\* kind of the refusal (NoTransaction for a dispute, NoDispute for a resolve
\* or chargeback), the transaction id of the refused record and the line
\* number of that record.
C14_ErrorNamesRecord ==
    (pc \in {"failed", "exited"} /\ error.kind \in {"NoTransaction", "NoDispute"}) =>
        LET row == RowOf(record) IN
        /\ error.kind = IF row.op = "dispute" THEN "NoTransaction" ELSE "NoDispute"
        /\ error.tx = row.tx
        /\ error.line = record_line

\* C15: the records are applied one at a time in input order, each once
\* and none skipped: while the run has met no error, after k records the
\* accounts map is what applying records 1..k in turn to an empty map gives.
C15_AccountsAreSequentialReplay ==
    pc \in {"reading", "drained", "returned", "printed"} =>
        /\ accounts = replayed
        /\ error = NoError
        /\ nread <= MaxRecords

\* Three records went through: a deposit and its dispute on one client and
\* a deposit on another.
C15_Witness ==
    /\ pc = "returned"
    /\ nread = 3
    /\ Cardinality(DOMAIN accounts) = 2
    /\ \E c \in DOMAIN accounts : accounts[c].funds_held > 0
    /\ \E c \in DOMAIN accounts :
          accounts[c].funds_held = 0 /\ accounts[c].funds_available > 0

\* C16 (as stated): for a dispute, resolve or chargeback row the amount
\* field is ignored: whatever it holds, the row succeeds or fails as the
\* ledger of its client decides and leaves the accounts the ledger leaves.
C16_AmountFieldIgnored ==
    [][(nread' = nread + 1 /\ RowOf(record').op \in DisputeOps) =>
          LET row == RowOf(record')
              r == Apply(AccountOf(accounts, row.client), row.op, row.tx, 0)
          IN IF r.result = "Ok"
             THEN pc' # "failed" /\ accounts' = Replay(accounts, row)
             ELSE pc' = "failed" /\ error'.kind = r.result]_vars

\* C16 (amended): the amount field of a dispute, resolve or chargeback row
\* is parsed like that of any row and its value is then not used. When the
\* field is absent, blank or a well-formed amount the row succeeds or fails
\* as the ledger decides; a field that starts with '-' ends the run with
\* NegativeAmount and the line number, any other malformed field with a
\* parse error, in both cases before the account is looked at.
C16_AmountFieldParsedThenIgnored ==
    [][(nread' = nread + 1 /\ RowOf(record').op \in DisputeOps) =>
          LET row == RowOf(record')
              text == IF Len(record') = 4 THEN trim_ascii(record'[4]) ELSE <<>>
              r == Apply(AccountOf(accounts, row.client), row.op, row.tx, 0)
          IN IF text = <<>> \/ WellFormedAmount(text)
             THEN IF r.result = "Ok"
                  THEN pc' # "failed" /\ accounts' = Replay(accounts, row)
                  ELSE pc' = "failed" /\ error'.kind = r.result
             ELSE /\ pc' = "failed"
                  /\ accounts' = EmptyAccounts
                  /\ error' = IF Head(text) = "-"
                              THEN Err("NegativeAmount", 0, line')
                              ELSE Err("Parse", 0, 0)]_vars

\* A dispute of a disputable transaction came with a negative amount field
\* and the run failed on it.
C16_Witness ==
    /\ pc = "failed"
    /\ error.kind = "NegativeAmount"
    /\ record[1] = "dispute"
    /\ LET row == RowOf(record) IN
         /\ row.client \in DOMAIN replayed
         /\ row.tx \in Keys(replayed[row.client].disputable_transactions)

\* C19: accounts are created on first reference and start empty. While the
\* run has met no error the clients that have an account are those the
\* records read so far referenced, each account filed under its own client
\* id; the account of a client referenced for the first time is, after its
\* record, what the record makes of available = 0, held = 0, locked = false
\* and two empty maps; and the rows output are one for each client that
\* occurs in the input.
C19_AccountsCreatedOnFirstReference ==
    [][/\ pc' \in {"reading", "drained", "returned", "printed"} =>
             /\ DOMAIN accounts' = referenced'
             /\ \A c \in DOMAIN accounts' : accounts'[c].client = c
       /\ (nread' = nread + 1 /\ pc' # "failed"
                /\ RowOf(record').client \notin DOMAIN accounts) =>
             LET row == RowOf(record')
                 fresh == [client |-> row.client,
                           funds_available |-> 0,
                           funds_held |-> 0,
                           disputes |-> EmptyMap,
                           disputable_transactions |-> EmptyMap,
                           locked |-> FALSE]
             IN /\ accounts'[row.client] =
                      Apply(fresh, row.op, row.tx, row.units).account
                /\ row.op \in {"deposit", "withdraw"}
       /\ pc' = "printed" =>
             /\ {r.client : r \in output'} = referenced'
             /\ Cardinality(output') = Cardinality(referenced')]_vars

\* A run over records of two clients has printed one row for each.
C19_Witness ==
    /\ pc = "printed"
    /\ nread = 2
    /\ referenced = Clients
    /\ {r.client : r \in output} = Clients
    /\ \A r \in output : r.held = 0 /\ ~r.locked /\ r.total # 0

\* C20: a record touches the account of its own client only, and
\* transaction ids are scoped by account. A record that is applied leaves
\* every other account as it was and adds no account but its client's; a
\* dispute is applied only when its id is disputable in the account of its
\* own client, a resolve or chargeback only when its id is under dispute
\* there, whatever the other accounts hold under that id.
C20_RecordTouchesOwnAccountOnly ==
    [][(nread' = nread + 1 /\ pc' # "failed") =>
          LET row == RowOf(record') IN
          /\ DOMAIN accounts' = (DOMAIN accounts) \cup {row.client}
          /\ \A c \in (DOMAIN accounts) \ {row.client} : accounts'[c] = accounts[c]
          /\ row.op = "dispute" =>
                /\ row.client \in DOMAIN accounts
                /\ row.tx \in Keys(accounts[row.client].disputable_transactions)
          /\ row.op \in {"resolve", "chargeback"} =>
                /\ row.client \in DOMAIN accounts
                /\ row.tx \in Keys(accounts[row.client].disputes)]_vars

\* A dispute was refused with NoTransaction although another client has a
\* disputable transaction with the same id.
C20_Witness ==
    /\ pc = "failed"
    /\ error.kind = "NoTransaction"
    /\ LET row == RowOf(record) IN
         \E c \in (DOMAIN replayed) \ {row.client} :
             row.tx \in Keys(replayed[c].disputable_transactions)

----------------------------------------------------------------------------
\* Further properties of one account (Spec).

\* C23 (as stated): in every reachable state held is the sum of the amounts
\* in the disputes map, also when transaction ids are reused.
C23_HeldIsSumOfDisputes ==
    account.funds_held = SumMap(account.disputes)

\* C24: with amounts that are not negative, held is never negative; it is
\* never below the sum of the amounts in the disputes map.
C24_HeldNeverNegative ==
    /\ account.funds_held >= 0
    /\ account.funds_held >= SumMap(account.disputes)

\* A resolve or chargeback has closed the only entry of disputes and funds
\* are still held.
C24_Witness ==
    /\ Succeeded(last, {"resolve", "chargeback"})
    /\ account.disputes = EmptyMap
    /\ account.funds_held > 0

\* C25: a resolve(T) or chargeback(T) succeeds only while a successful
\* dispute(T) is open, one that no successful resolve(T) or chargeback(T)
\* has followed, and it closes that dispute: the ids with an open dispute
\* are the keys of disputes.
C25_CloseNeedsOpenDispute ==
    [][/\ Succeeded(last', {"resolve", "chargeback"}) =>
             /\ last'.tx \in open_disputes
             /\ last'.tx \notin open_disputes'
       /\ Keys(account'.disputes) = open_disputes']_vars

\* A dispute was closed, and the next resolve and chargeback of the same
\* id were refused.
C25_Witness ==
    /\ last.op = "chargeback"
    /\ last.result = "NoDispute"
    /\ last.tx \notin open_disputes
    /\ last.tx \in Keys(account.disputable_transactions)
    /\ nops >= 4

----------------------------------------------------------------------------
\* Properties of runs over well-formed rows (SpecLedgerRun).

\* C26: an account is locked only by a successful chargeback on itself. An
\* account that is locked after a step and was not locked (or did not
\* exist) before it is the account of the client of the record just read,
\* that record is a chargeback and it was applied; so deposits,
\* withdrawals, disputes, resolves, refused chargebacks and records of
\* other clients lock nothing, and no account starts locked.
C26_LockedOnlyByOwnChargeback ==
    [][\A c \in DOMAIN accounts' :
          (accounts'[c].locked /\ ~(c \in DOMAIN accounts /\ accounts[c].locked)) =>
              /\ nread' = nread + 1
              /\ pc' # "failed"
              /\ RowOf(record').op = "chargeback"
              /\ RowOf(record').client = c
              /\ c \in DOMAIN accounts
              /\ RowOf(record').tx \in Keys(accounts[c].disputes)]_vars

\* A chargeback has just locked the account of one client while the other
\* client's account, with funds of its own, stays unlocked.
C26_Witness ==
    /\ pc = "reading"
    /\ nread = 4
    /\ record[1] = "chargeback"
    /\ \E c \in DOMAIN accounts : accounts[c].locked
    /\ \E c \in DOMAIN accounts :
          ~accounts[c].locked /\ accounts[c].funds_available # 0

\* C21: records of different clients can change places. After any prefix
\* of a run, when the next two records are of different clients and both
\* are applied without error, they are also applied without error in the
\* other order and leave the same accounts map: the same available, held,
\* locked and dispute maps for every client. Every reordering of an input
\* that keeps the order of each client's records is a chain of such
\* exchanges of neighbours, so it ends in the same accounts.
C21_RecordsOfDifferentClientsCommute ==
    (pc = "reading" /\ nread + 2 <= MaxLedgerRecords) =>
        \A r1 \in LedgerRows :
            LET s1 == parse_csv_body(accounts, r1.fields, line + 1) IN
            s1.result.ok =>
                \A r2 \in LedgerRows :
                    LET s12 == parse_csv_body(s1.accounts, r2.fields, line + 2) IN
                    (r2.client # r1.client /\ s12.result.ok) =>
                        LET s2 == parse_csv_body(accounts, r2.fields, line + 1)
                            s21 == parse_csv_body(s2.accounts, r1.fields, line + 2)
                        IN /\ s2.result.ok
                           /\ s21.result.ok
                           /\ s21.accounts = s12.accounts

\* After a deposit and its dispute on one client, a chargeback of that
\* client and a deposit of another can follow in either order.
C21_Witness ==
    /\ pc = "reading"
    /\ nread = 2
    /\ \E r1, r2 \in LedgerRows :
          /\ r1.op = "chargeback"
          /\ r2.op = "deposit"
          /\ r2.client # r1.client
          /\ r1.client \in DOMAIN accounts
          /\ r1.tx \in Keys(accounts[r1.client].disputes)
          /\ r2.client \notin DOMAIN accounts

----------------------------------------------------------------------------
\* Termination of the run (FairSpecShortRun).

\* C22: the run terminates, in one of two ways. It ends printed or exited;
\* it leaves the loop either on the record that produced an error, with
\* that error, or without an error when the reader has no record left;
\* a run that printed has applied every record it read and met no error;
\* a run that failed reads no further record and prints nothing.
C22_RunTerminates ==
    /\ <>(pc \in {"printed", "exited"})
    /\ [](pc \in {"returned", "printed"} =>
             (error = NoError /\ accounts = replayed))
    /\ [](pc \in {"failed", "exited"} => (error # NoError /\ output = {}))
    /\ [][/\ (pc \in {"reading", "drained"} /\ pc' \notin {"reading", "drained"}) =>
                 \/ pc' = "failed" /\ nread' = nread + 1
                 \/ pc' = "returned" /\ nread' = nread /\ accounts' = accounts
          /\ pc = "drained" => pc' = "returned"
          /\ pc \in {"failed", "exited"} => (pc' = "exited" /\ nread' = nread)
          /\ pc \in {"returned", "printed"} => (pc' = "printed" /\ nread' = nread)]_vars

\* A run has ended on the error of its second record, after the first
\* was applied.
C22_Witness ==
    /\ nread = 2
    /\ pc = "exited"
    /\ error.kind = "NoDispute"
    /\ DOMAIN replayed # {}

====
